---- MODULE Spec2Model ----
(***************************************************************************)
(* ScatterElements for CUDA                                                *)
(* (onnxruntime/core/providers/cuda/tensor/scatter_elements_impl.cu):      *)
(* the two kernels' destination-offset computations, the dimension         *)
(* compaction CompactInputIndicesDims, and the driver ScatterElementsImpl  *)
(* that enqueues the device copy and the kernel on stream 0.               *)
(*                                                                         *)
(* C++ arrays are 0-based; a TLA+ sequence s holds element i at s[i+1],    *)
(* read with At(s, i).                                                     *)
(***************************************************************************)
EXTENDS Integers, Sequences, FiniteSets, TLC

\* ------------------------------------------------------------------ bounds
\* Largest rank and largest extent of the shapes explored.
MaxRank == 3
MaxDim == 2
\* Largest number of indices elements in one run of the driver (Spec).
MaxIndices == 4
\* Largest number of input (and output) elements in one run of the driver.
MaxInput == 6

\* ------------------------------------------------------------ sequences
At(s, i) == s[i + 1]

Back(s) == s[Len(s)]

MulBack(s, x) == [s EXCEPT ![Len(s)] = @ * x]

PopBack(s) == SubSeq(s, 1, Len(s) - 1)

Reverse(s) == [k \in 1..Len(s) |-> s[Len(s) + 1 - k]]

RECURSIVE Product(_)
Product(s) == IF s = <<>> THEN 1 ELSE s[1] * Product(Tail(s))

\* Row-major strides of a shape, as the caller passes them in
\* buffer_input_strides and fdm_indices_strides.
Strides(dims) == [k \in 1..Len(dims) |-> Product(SubSeq(dims, k + 1, Len(dims)))]

\* ------------------------------------------------------- the index type
\* An element of indices_data is a two's-complement integer of the index type
\* Tin.  It is kept as its two 32-bit words: lo is the low word read as a
\* signed 32-bit int, hi the high word (for int32_t, the sign extension of
\* lo).  Its value is hi * 2^32 + (lo mod 2^32).
SignExt(lo) == IF lo < 0 THEN -1 ELSE 0

TinOf(n) == [hi |-> SignExt(n), lo |-> n]

FitsInt(v) == v.hi = SignExt(v.lo)

\* (int)(indices_data[indices_index]): the conversion keeps the low 32 bits.
CastInt(v) == v.lo

\* fast_divmod::divmod(n, q, r)
DivMod(n, d) == [q |-> n \div d, r |-> n % d]

\* A kernel's effect for one work unit: a write at data_idx, or none.
Write(data_idx) == [valid |-> TRUE, data_idx |-> data_idx]

Skip == [valid |-> FALSE, data_idx |-> 0]

\* ------------------------------------------------ _ScatterElementsKernel2D
\* Mutant: the kernel without "if (dim < 0) dim += max_dim".
ScatterElementsKernel2DNoNormalize(OUTERAXIS, max_dim, idxval, indices_index, indices_stride_row, output_row_size) ==
  LET rc == DivMod(indices_index, indices_stride_row)
      dim == CastInt(idxval)
  IN IF dim >= -max_dim /\ dim < max_dim
     THEN IF OUTERAXIS
          THEN Write(dim * output_row_size + rc.r)
          ELSE Write(rc.q * output_row_size + dim)
     ELSE Skip

ScatterElementsKernel2D(OUTERAXIS, max_dim, idxval, indices_index, indices_stride_row, output_row_size) ==
  LET rc == DivMod(indices_index, indices_stride_row)
      row == rc.q
      col == rc.r
      dim == CastInt(idxval)
  IN IF dim >= -max_dim /\ dim < max_dim
     THEN LET d == IF dim < 0 THEN dim + max_dim ELSE dim
          IN IF OUTERAXIS
             THEN Write(d * output_row_size + col)
             ELSE Write(row * output_row_size + d)
     ELSE Skip

\* -------------------------------------------------- _ScatterElementsKernel
RECURSIVE KernelLoop(_, _, _, _, _, _, _, _, _)
KernelLoop(i, rank, remain, data_idx, input_dims, input_strides, indices_strides, axis, idxval) ==
  IF i < rank
  THEN LET qr == DivMod(remain, At(indices_strides, i))
       IN IF i = axis
          THEN LET dim == CastInt(idxval)
               IN IF dim < -At(input_dims, i) \/ dim >= At(input_dims, i)
                  THEN Skip
                  ELSE LET d == IF dim < 0 THEN dim + At(input_dims, i) ELSE dim
                       IN KernelLoop(i + 1, rank, qr.r,
                                     data_idx + At(input_strides, i) * d,
                                     input_dims, input_strides,
                                     indices_strides, axis, idxval)
          ELSE KernelLoop(i + 1, rank, qr.r,
                          data_idx + At(input_strides, i) * qr.q,
                          input_dims, input_strides, indices_strides,
                          axis, idxval)
  ELSE Write(data_idx)

ScatterElementsKernel(rank, input_dims, input_strides, idxval, indices_index, indices_strides, axis) ==
  KernelLoop(0, rank, indices_index, 0, input_dims, input_strides,
             indices_strides, axis, idxval)

\* ------------------------------------------------ CompactInputIndicesDims
\* The working state of the function: the two vectors under construction
\* (innermost first), the loop variable i and could_continue_merge (ccm).
RECURSIVE InnerMerge(_, _, _, _)
InnerMerge(st, axis, input_dims, indices_dims) ==
  IF st.i > axis
  THEN IF At(input_dims, st.i) = At(indices_dims, st.i)
       THEN InnerMerge([st EXCEPT !.ein = MulBack(@, At(input_dims, st.i)),
                                  !.eidx = MulBack(@, At(indices_dims, st.i)),
                                  !.i = @ - 1],
                       axis, input_dims, indices_dims)
       ELSE [st EXCEPT !.ccm = FALSE]
  ELSE st

RECURSIVE InnerCopy(_, _, _, _)
InnerCopy(st, axis, input_dims, indices_dims) ==
  IF st.i > axis
  THEN InnerCopy([st EXCEPT !.ein = Append(@, At(input_dims, st.i)),
                            !.eidx = Append(@, At(indices_dims, st.i)),
                            !.i = @ - 1],
                 axis, input_dims, indices_dims)
  ELSE st

InnerPass(st, rank, axis, input_dims, indices_dims) ==
  LET s1 == [st EXCEPT !.ein = Append(@, 1), !.eidx = Append(@, 1),
                       !.i = rank - 1]
      s2 == InnerMerge(s1, axis, input_dims, indices_dims)
      s3 == IF Back(s2.ein) = 1
            THEN [s2 EXCEPT !.ein = PopBack(@), !.eidx = PopBack(@)]
            ELSE s2
  IN IF ~s3.ccm THEN InnerCopy(s3, axis, input_dims, indices_dims) ELSE s3

\* Mutant: the outer merge loop stops before axis 0 (i > 0 for i >= 0).
RECURSIVE OuterMergeSkipsAxis0(_, _, _)
OuterMergeSkipsAxis0(st, input_dims, indices_dims) ==
  IF st.i > 0 /\ st.ccm
  THEN IF At(input_dims, st.i) = At(indices_dims, st.i)
       THEN OuterMergeSkipsAxis0(
              [st EXCEPT !.ein = MulBack(@, At(input_dims, st.i)),
                         !.eidx = MulBack(@, At(indices_dims, st.i)),
                         !.i = @ - 1],
              input_dims, indices_dims)
       ELSE [st EXCEPT !.ccm = FALSE]
  ELSE st

RECURSIVE OuterMerge(_, _, _)
OuterMerge(st, input_dims, indices_dims) ==
  IF st.i >= 0 /\ st.ccm
  THEN IF At(input_dims, st.i) = At(indices_dims, st.i)
       THEN OuterMerge([st EXCEPT !.ein = MulBack(@, At(input_dims, st.i)),
                                  !.eidx = MulBack(@, At(indices_dims, st.i)),
                                  !.i = @ - 1],
                       input_dims, indices_dims)
       ELSE [st EXCEPT !.ccm = FALSE]
  ELSE st

\* for (; i >= 0 && could_continue_merge; --i), entered only when
\* could_continue_merge is false.
RECURSIVE OuterCopy(_, _, _)
OuterCopy(st, input_dims, indices_dims) ==
  IF st.i >= 0 /\ st.ccm
  THEN OuterCopy([st EXCEPT !.ein = Append(@, At(input_dims, st.i)),
                            !.eidx = Append(@, At(indices_dims, st.i)),
                            !.i = @ - 1],
                 input_dims, indices_dims)
  ELSE st

OuterPass(st, new_axis, axis, input_dims, indices_dims) ==
  LET s1 == IF st.ccm
            THEN [st EXCEPT !.ein = Append(@, 1), !.eidx = Append(@, 1)]
            ELSE st
      s2 == OuterMerge([s1 EXCEPT !.i = axis - 1], input_dims, indices_dims)
      s3 == IF new_axis < Len(s2.eidx) /\ Back(s2.ein) = 1
            THEN [s2 EXCEPT !.ein = PopBack(@), !.eidx = PopBack(@)]
            ELSE s2
  IN IF ~s3.ccm THEN OuterCopy(s3, input_dims, indices_dims) ELSE s3

CompactInputIndicesDims(rank, axis, input_dims, indices_dims) ==
  LET s0 == [ein |-> <<>>, eidx |-> <<>>, ccm |-> TRUE, i |-> 0]
      s1 == IF axis < rank - 1
            THEN InnerPass(s0, rank, axis, input_dims, indices_dims)
            ELSE s0
      s2 == [s1 EXCEPT
               !.ccm = @ /\ At(input_dims, axis) = At(indices_dims, axis),
               !.ein = Append(@, At(input_dims, axis)),
               !.eidx = Append(@, At(indices_dims, axis))]
      na == Len(s2.ein)
      s3 == IF axis > 0
            THEN OuterPass(s2, na, axis, input_dims, indices_dims)
            ELSE s2
  IN [eff_input_dims |-> Reverse(s3.ein),
      eff_indices_dims |-> Reverse(s3.eidx),
      new_axis |-> Len(s3.ein) - na]

\* ------------------------------------------------------ ScatterElementsImpl
\* Mutant: the two orientations of the 2-D launch exchanged.
ScatterElementsImpl2DSwapped(input_dims2, indices_dims2, axis2) ==
  [op |-> "kernel", kind |-> "2D", OUTERAXIS |-> (axis2 # 0),
   max_dim |-> IF axis2 # 0 THEN At(input_dims2, 0) ELSE At(input_dims2, 1),
   indices_stride_row |-> At(indices_dims2, 1),
   output_row_size |-> At(input_dims2, 1)]

\* The <<<...>>> launch ScatterElementsImpl2D makes for the reduced shapes.
ScatterElementsImpl2D(input_dims2, indices_dims2, axis2) ==
  IF axis2 = 0
  THEN [op |-> "kernel", kind |-> "2D", OUTERAXIS |-> TRUE,
        max_dim |-> At(input_dims2, 0),
        indices_stride_row |-> At(indices_dims2, 1),
        output_row_size |-> At(input_dims2, 1)]
  ELSE [op |-> "kernel", kind |-> "2D", OUTERAXIS |-> FALSE,
        max_dim |-> At(input_dims2, 1),
        indices_stride_row |-> At(indices_dims2, 1),
        output_row_size |-> At(input_dims2, 1)]

\* The launch of the generic kernel on the caller's rank, shapes and strides.
GenericLaunch(rank_, input_dims_, input_strides_, indices_strides_, axis_) ==
  [op |-> "kernel", kind |-> "generic", rank |-> rank_,
   input_dims |-> input_dims_, input_strides |-> input_strides_,
   indices_strides |-> indices_strides_, axis |-> axis_]

\* The kernel ScatterElementsImpl launches when indices_size > 0.
SelectKernel(rank_, axis_, input_dims_, input_strides_, indices_dims_, indices_strides_, c) ==
  IF Len(c.eff_input_dims) = 2
  THEN ScatterElementsImpl2D(c.eff_input_dims, c.eff_indices_dims, c.new_axis)
  ELSE GenericLaunch(rank_, input_dims_, input_strides_, indices_strides_, axis_)

\* What the work unit indices_index of launch k does, reading idxval from
\* indices_data[indices_index].
WorkUnit(k, idxval, indices_index) ==
  IF k.kind = "2D"
  THEN ScatterElementsKernel2D(k.OUTERAXIS, k.max_dim, idxval, indices_index,
                               k.indices_stride_row, k.output_row_size)
  ELSE ScatterElementsKernel(k.rank, k.input_dims, k.input_strides, idxval,
                             indices_index, k.indices_strides, k.axis)

\* Mutant: the operation is issued where it need not wait for the
\* operations issued before it.
EnqueueUnordered(q, op) == <<op>> \o q

\* Stream 0 runs what is enqueued on it in order of issue.
Enqueue(q, op) == Append(q, op)

\* ------------------------------------------------------------------ state
VARIABLES
  rank, axis, input_dims, indices_dims,  \* the call's shape arguments
  input_data, indices_data, updates,     \* device buffers the call reads
  aliased,                               \* input_data == output_data
  output_data,                           \* the output buffer
  pc,                                    \* where the host is in the call
  status,                                \* the Status returned
  eff,                                   \* eff_input_dims, eff_indices_dims, new_axis
  stream,                                \* stream 0: operations issued, not yet complete
  pending,                               \* work units of the launch still to run
  reported,                              \* errors the CUDA runtime has reported
  log,                                   \* history: device events in order
  probe                                  \* SpecCompact: one mapped element

vars == <<rank, axis, input_dims, indices_dims, input_data, indices_data,
          updates, aliased, output_data, pc, status, eff, stream, pending,
          reported, log, probe>>

shape == <<rank, axis, input_dims, indices_dims>>

buffers == <<input_data, indices_data, updates, aliased>>

input_size == Product(input_dims)

indices_size == Product(indices_dims)

NoEff == [eff_input_dims |-> <<>>, eff_indices_dims |-> <<>>, new_axis |-> 0]

NoProbe == [set |-> FALSE]

\* A value that stands for whatever the caller's freshly allocated output
\* buffer holds; it differs from every input and update value.
Uninit == 0 - 1

\* The call's shape arguments: every rank, axis and pair of shapes within the
\* bounds whose indices extents are at least minIdx and at most the input's.
ShapeArgs(maxRank, maxDim, minIdx) ==
  \E r \in 1..maxRank :
    \E a \in 0..(r - 1), ind \in [1..r -> 1..maxDim] :
      \E idd \in [1..r -> minIdx..maxDim] :
        /\ \A k \in 1..r : idd[k] <= ind[k]
        /\ rank = r
        /\ axis = a
        /\ input_dims = ind
        /\ indices_dims = idd

\* Index values of interest for a scatter axis of extent d: valid ones,
\* the two nearest invalid ones on each side, and two int64_t values that
\* do not fit 32 bits (2^32 and 2^32 - 1).
TinValues(d) ==
  {TinOf(n) : n \in (-(d + 2))..(d + 1)} \cup {[hi |-> 1, lo |-> 0], [hi |-> 0, lo |-> -1]}

\* ------------------------------------------- SpecCompact: the pure functions
\* Every rank, axis and shape pair within the bounds (indices extents at
\* most the input extents); CompactDims applies CompactInputIndicesDims and
\* MapElement applies the kernels to one indices element.
InitCompact ==
  /\ ShapeArgs(MaxRank, MaxDim, 1)
  /\ input_data = <<>>
  /\ indices_data = <<>>
  /\ updates = <<>>
  /\ aliased = FALSE
  /\ output_data = <<>>
  /\ pc = "shape"
  /\ status = "none"
  /\ eff = NoEff
  /\ stream = <<>>
  /\ pending = {}
  /\ reported = {}
  /\ log = {}
  /\ probe = NoProbe

CompactDims ==
  /\ pc = "shape"
  /\ eff' = CompactInputIndicesDims(rank, axis, input_dims, indices_dims)
  /\ pc' = "compacted"
  /\ UNCHANGED <<shape, buffers, output_data, status, stream, pending,
                 reported, log, probe>>

\* The value that replaces v in the negative-index form: v - input_dims[axis]
\* for v in [0, input_dims[axis]), v itself otherwise.
Negated(v, d) ==
  IF FitsInt(v) /\ v.lo >= 0 /\ v.lo < d THEN TinOf(v.lo - d) ELSE v

MapElement ==
  /\ pc = "compacted"
  /\ \E p \in 0..(indices_size - 1), v \in TinValues(At(input_dims, axis)) :
       LET k == SelectKernel(rank, axis, input_dims, Strides(input_dims),
                             indices_dims, Strides(indices_dims), eff)
           w == Negated(v, At(input_dims, axis))
       IN probe' = [set |-> TRUE, indices_index |-> p, idxval |-> v,
                    kind |-> k.kind,
                    outer |-> (k.kind = "2D" /\ k.OUTERAXIS),
                    got |-> WorkUnit(k, v, p),
                    generic |-> ScatterElementsKernel(
                                  rank, input_dims, Strides(input_dims), v, p,
                                  Strides(indices_dims), axis),
                    alt |-> w,
                    gotAlt |-> WorkUnit(k, w, p),
                    genericAlt |-> ScatterElementsKernel(
                                     rank, input_dims, Strides(input_dims), w,
                                     p, Strides(indices_dims), axis)]
  /\ pc' = "mapped"
  /\ UNCHANGED <<shape, buffers, output_data, status, eff, stream, pending,
                 reported, log>>

NextCompact == CompactDims \/ MapElement

SpecCompact == InitCompact /\ [][NextCompact]_vars

\* ------------------------------------------------ Spec: one call of the driver
\* Index values a run draws from, for a scatter axis of extent d: 0 and -1
\* (valid), d (invalid) and the int64_t value 2^32.
RunValues(d) == {TinOf(0), TinOf(-1), TinOf(d), [hi |-> 1, lo |-> 0]}

InitBuffers(fill) ==
  /\ input_data = [k \in 1..input_size |-> IF fill = "zeros" THEN 0 ELSE k]
  /\ updates = [k \in 1..indices_size |-> 10 * k]
  /\ aliased \in BOOLEAN
  /\ output_data = IF aliased THEN input_data
                   ELSE [k \in 1..input_size |-> Uninit]
  /\ pc = "call"
  /\ status = "none"
  /\ eff = NoEff
  /\ stream = <<>>
  /\ pending = {}
  /\ reported = {}
  /\ log = {}
  /\ probe = NoProbe

Init ==
  /\ ShapeArgs(MaxRank, MaxDim, 0)
  /\ indices_size <= MaxIndices
  /\ input_size <= MaxInput
  /\ indices_data \in [1..indices_size -> RunValues(At(input_dims, axis))]
  /\ InitBuffers("iota")

\* Lines 185-187: the device-to-device copy, issued on stream 0.
HostCopy ==
  /\ pc = "call"
  /\ IF aliased
     THEN /\ pc' = "copied"
          /\ UNCHANGED <<stream, reported, status>>
     ELSE \E err \in BOOLEAN :
            IF err
            THEN /\ reported' = reported \cup {"memcpy"}
                 /\ status' = "fail"
                 /\ pc' = "returned"
                 /\ UNCHANGED stream
            ELSE /\ stream' = Enqueue(stream, [op |-> "memcpy"])
                 /\ pc' = "copied"
                 /\ UNCHANGED <<reported, status>>
  /\ UNCHANGED <<shape, buffers, output_data, eff, pending, log, probe>>

\* Lines 189-206: compaction, the kernel launch on stream 0, return OK.  A
\* launch the runtime rejects enqueues nothing and is reported through the
\* runtime's last-error state only.
HostLaunch ==
  /\ pc = "copied"
  /\ IF indices_size > 0
     THEN /\ eff' = CompactInputIndicesDims(rank, axis, input_dims, indices_dims)
          /\ \E err \in BOOLEAN :
               IF err
               THEN /\ reported' = reported \cup {"launch"}
                    /\ UNCHANGED <<stream, pending>>
               ELSE /\ stream' = Enqueue(stream,
                                   SelectKernel(rank, axis, input_dims,
                                                Strides(input_dims), indices_dims,
                                                Strides(indices_dims), eff'))
                    /\ pending' = 0..(indices_size - 1)
                    /\ UNCHANGED reported
     ELSE UNCHANGED <<eff, stream, pending, reported>>
  /\ status' = "ok"
  /\ pc' = "returned"
  /\ UNCHANGED <<shape, buffers, output_data, log, probe>>

Count(ev) == Cardinality({e \in log : e.ev = ev})

\* cudaMemcpyAsync(output_data, input_data, input_size * sizeof(CudaT), ...)
\* runs when it is the oldest operation of the stream.
DeviceCopy ==
  /\ stream # <<>>
  /\ Head(stream).op = "memcpy"
  /\ output_data' = input_data
  /\ stream' = Tail(stream)
  /\ log' = log \cup {[ev |-> "memcpy", writes |-> Count("unit")]}
  /\ UNCHANGED <<shape, buffers, pc, status, eff, pending, reported, probe>>

\* One thread of the kernel at the head of the stream: its index computation
\* and func(output_data + data_idx, updates + indices_index), with
\* Func_Assignment.  Threads run in any order; the launch completes with its
\* last thread.  (Threads with indices_index >= indices_size exit at once.)
DeviceUnit ==
  /\ stream # <<>>
  /\ Head(stream).op = "kernel"
  /\ \E u \in pending :
       LET w == WorkUnit(Head(stream), At(indices_data, u), u)
       IN /\ output_data' = IF w.valid
                            THEN [output_data EXCEPT ![w.data_idx + 1] = At(updates, u)]
                            ELSE output_data
          /\ input_data' = IF aliased THEN output_data' ELSE input_data
          /\ pending' = pending \ {u}
          /\ stream' = IF pending' = {} THEN Tail(stream) ELSE stream
          /\ log' = log \cup {[ev |-> "unit", unit |-> u, wrote |-> w.valid,
                               data_idx |-> w.data_idx,
                               copies |-> Count("memcpy")]}
  /\ UNCHANGED <<shape, indices_data, updates, aliased, pc, status, eff,
                 reported, probe>>

Next == HostCopy \/ HostLaunch \/ DeviceCopy \/ DeviceUnit

Spec == Init /\ [][Next]_vars

\* ------------------------------- SpecExample: the documented (2,3) example
InitExample ==
  /\ rank = 2
  /\ axis = 1
  /\ input_dims = <<2, 3>>
  /\ indices_dims = <<2, 3>>
  /\ indices_data = <<TinOf(1), TinOf(0), TinOf(2), TinOf(0), TinOf(2), TinOf(1)>>
  /\ InitBuffers("zeros")

SpecExample == InitExample /\ [][Next]_vars

\* The call has returned and the stream has drained.
Finished == pc = "returned" /\ stream = <<>>

\* ------------------------------------------------- reference definitions
\* The extent of the scatter axis, and whether an index value (taken as the
\* integer it is) lies in [-input_dims[axis], input_dims[axis]).
AxisDim == At(input_dims, axis)

InRange(v) == FitsInt(v) /\ v.lo >= -AxisDim /\ v.lo < AxisDim

\* Coordinate of flat position p on axis i of a row-major shape.
Coord(p, dims, i) == (p \div At(Strides(dims), i)) % At(dims, i)

RECURSIVE SumOver(_, _)
SumOver(f, n) == IF n = 0 THEN 0 ELSE f[n] + SumOver(f, n - 1)

\* The reference destination of the indices element at flat position p with
\* in-range value v: the element's own coordinates on the non-scatter axes,
\* the normalized value on the scatter axis, in the input's row-major layout.
RefDest(p, v) ==
  SumOver([k \in 1..rank |->
             Strides(input_dims)[k] *
               (IF k - 1 = axis
                THEN (IF v.lo < 0 THEN v.lo + AxisDim ELSE v.lo)
                ELSE Coord(p, indices_dims, k - 1))],
          rank)

\* The non-scatter extents agree, and their product.
OthersEqual == \A i \in 0..(rank - 1) : i # axis => At(input_dims, i) = At(indices_dims, i)

OthersProduct == Product(input_dims) \div AxisDim

\* ---------------------------------------------------- claims, SpecCompact
\* C1 (as stated): whenever the driver takes the 2-D path, every indices
\* element with a valid value is written to the offset the generic kernel
\* computes on the original rank, shapes and strides.
C1_CompactionEquivalence ==
  (probe.set /\ probe.kind = "2D" /\ InRange(probe.idxval))
    => probe.got = probe.generic

\* C5: replacing a value v in [0, input_dims[axis]) by v - input_dims[axis]
\* leaves the destination offset unchanged, in the generic kernel and in the
\* 2-D kernel (either orientation).
C5_NegativeIndexEquivalence ==
  (probe.set /\ InRange(probe.idxval) /\ probe.idxval.lo >= 0)
    => /\ probe.alt = TinOf(probe.idxval.lo - AxisDim)
       /\ probe.got.valid /\ probe.gotAlt = probe.got
       /\ probe.generic.valid /\ probe.genericAlt = probe.generic

C5_Witness ==
  /\ probe.set /\ InRange(probe.idxval) /\ probe.idxval.lo = 1
  /\ probe.kind = "2D" /\ ~probe.outer
  /\ probe.indices_index > 0
  /\ probe.gotAlt = probe.got /\ probe.got.data_idx > 1

\* C9 (as stated): compaction preserves the number of elements of both
\* shapes.
C9_LosslessCompaction ==
  pc # "shape" =>
    /\ Product(eff.eff_input_dims) = Product(input_dims)
    /\ Product(eff.eff_indices_dims) = Product(indices_dims)

\* What "rank exactly 2 with the scatter axis at its position" means.
Rank2Result ==
  /\ eff.eff_input_dims =
       IF axis = 0 THEN <<AxisDim, OthersProduct>> ELSE <<OthersProduct, AxisDim>>
  /\ eff.eff_indices_dims =
       IF axis = 0 THEN <<At(indices_dims, axis), OthersProduct>>
       ELSE <<OthersProduct, At(indices_dims, axis)>>
  /\ eff.new_axis = (IF axis = 0 THEN 0 ELSE 1)
  /\ (probe.set => probe.kind = "2D")

Targeting(q) ==
  {p \in 0..(indices_size - 1) :
     InRange(At(indices_data, p)) /\ RefDest(p, At(indices_data, p)) = q}

\* C2 (as stated): a work unit whose index value lies outside
\* [-input_dims[axis], input_dims[axis]) writes nothing, and the call still
\* returns success.
C2_InvalidIndexSkip ==
  /\ \A e \in log :
       (e.ev = "unit" /\ ~InRange(At(indices_data, e.unit))) => ~e.wrote
  /\ (pc = "returned" /\ reported = {}) => status = "ok"

\* C3 (as stated): with distinct input and output buffers, once the call is
\* complete every output position that is the reference destination of no
\* valid indices element holds the input's value.
C3_IdentityElsewhere ==
  (Finished /\ ~aliased /\ status = "ok")
    => \A q \in 0..(input_size - 1) :
         Targeting(q) = {} => At(output_data, q) = At(input_data, q)

\* C6 (as stated): the call returns failure exactly when the copy or the
\* kernel launch reported an error.
C6_StatusPropagation ==
  pc = "returned" => ((status = "fail") <=> (reported # {}))

\* C7: with distinct buffers the copy completes before any work unit of the
\* kernel runs, it is never behind the kernel in the stream, and no scatter
\* write is overwritten by it; with one buffer no copy is ever enqueued.
C7_CopyBeforeScatter ==
  /\ \A e \in log :
       /\ (e.ev = "unit" /\ ~aliased) => e.copies = 1
       /\ e.ev = "memcpy" => (~aliased /\ e.writes = 0)
  /\ \A i, j \in 1..Len(stream) :
       (i < j /\ stream[i].op = "kernel") => stream[j].op # "memcpy"
  /\ aliased => \A i \in 1..Len(stream) : stream[i].op # "memcpy"
  /\ \A e \in log :
       (e.ev = "unit" /\ e.wrote) => At(output_data, e.data_idx) # Uninit

C7_Witness ==
  /\ Finished /\ ~aliased /\ indices_size = MaxIndices
  /\ Count("memcpy") = 1
  /\ \A u \in 0..(indices_size - 1) :
       \E e \in log : e.ev = "unit" /\ e.unit = u /\ e.wrote /\ e.copies = 1

\* C8 (as stated): once the kernel has run, an output position targeted by
\* one or more valid indices elements holds the update value of one of them.
C8_CollidingWrites ==
  (Finished /\ status = "ok" /\ reported = {})
    => \A q \in 0..(input_size - 1) :
         Targeting(q) # {}
           => At(output_data, q) \in {At(updates, p) : p \in Targeting(q)}

\* ---------------------------------------------------- claims, SpecExample
\* C4 (as stated): the (2,3) example yields [[20,10,30],[50,60,40]].
C4_SingleWrite ==
  (Finished /\ reported = {}) => output_data = <<20, 10, 30, 50, 60, 40>>

\* C4 (amended): the (2,3) example yields [[20,10,30],[40,60,50]].
C4_SingleWriteAmended ==
  (Finished /\ reported = {}) => output_data = <<20, 10, 30, 40, 60, 50>>

C4_Witness ==
  /\ Finished /\ reported = {} /\ ~aliased
  /\ input_dims = <<2, 3>> /\ axis = 1
  /\ Cardinality({e \in log : e.ev = "unit" /\ e.wrote}) = 6
====
